---- MODULE Spec2Model ----
(***************************************************************************)
(* Model of the resumable bulk alt-text updater of src/main.py: the        *)
(* scheduler run_bulk_update, the per-item processor process_single_sku /  *)
(* process_sku_images / update_image_alt, the checkpoint store             *)
(* CheckpointManager and the input-list compaction                         *)
(* remove_processed_skus_from_file, running against a remote catalog whose *)
(* response statuses are chosen nondeterministically.                      *)
(***************************************************************************)
EXTENDS Integers, Sequences, FiniteSets, TLC

\* ---------------------------------------------------------------- bounds
MaxId == 2          \* item IDs are 1..MaxId
MaxLines == 2       \* lines of sku_ids.txt
MaxImgs == 1        \* image records per item
MaxRuns == 2        \* consecutive executions of run_bulk_update
MaxItemImgs == 2    \* image records of the item of the single-item study
\* Completions between two periodic saves: 10 in the source, scaled down to
\* the lengths of the lists explored here so that the periodic save happens.
CHECKPOINT_INTERVAL == 2

\* ------------------------------------------------------ program constants
MAX_WORKERS == 3

IDs == 1..MaxId
Tasks == 1..MaxLines

\* An image record is represented by its Label: absent/empty, equal to the
\* alt text generated from the product name, or some other non-empty text.
NoLabel == "none"
Target == "target"
Other == "other"
Labels == {NoLabel, Target, Other}

\* A label of blanks only; it occurs in the catalogs of the single-item study.
Blank == "blank"

\* A line of sku_ids.txt is the sequence of its characters, without its
\* line terminator.
CommentLine == <<"#", "x">>
IdLine(i) == <<ToString(i)>>
Lines == {IdLine(i) : i \in IDs} \cup {CommentLine}

SeqsUpTo(S, n) == UNION {[1..k -> S] : k \in 0..n}

SeqToSet(s) == {s[k] : k \in 1..Len(s)}

VARIABLES
    run,              \* number of the current execution of run_bulk_update
    resume,           \* the argument of that execution
    listFile,         \* sku_ids.txt: sequence of lines
    ckptFile,         \* checkpoint.json: the processed_skus list on disk
    remote,           \* remote catalog: per item, the Labels of its images
    data,             \* checkpoint.data["processed_skus"] (in memory)
    sku_ids,          \* the list returned by load_sku_list
    mpc,              \* position of the main thread in run_bulk_update
    submitted,        \* number of tasks handed to the executor
    processed_count,  \* run_bulk_update's counter of completed futures
    yielded,          \* tasks already yielded by as_completed
    raised,           \* what ended the batch loop early: "none" or the
                      \* exception
    log_lock,         \* holder of the module-level log_lock
    task,             \* per task: position and locals of process_single_sku
    loaded,           \* the IDs of the checkpoint as loaded by this execution
    prev,             \* of the previous execution: the IDs in its checkpoint
                      \* at its end, the IDs for which it had an update fail
                      \* and for which it issued one, and whether it returned
                      \* without an interrupt
    listFile0,        \* sku_ids.txt as the operator first supplied it
    \* RateLimiter (the module-level rate_limiter), studied on its own:
    now,              \* time.time(), in tenths of a second
    last_request,     \* rate_limiter.last_request
    rl_lock,          \* holder of rate_limiter.lock, 0 when free
    waiter,           \* per caller of wait(): position and locals
    released,         \* the values written to last_request, in order
    \* One call of safe_request, studied on its own:
    sr_pc,            \* "idle", "request" (inside SESSION.request), "returned"
    sr_result,        \* what the call gave its caller: "None", a status,
                      \* or "raised"
    answers,          \* what each attempt sent on the wire met, in order
    retries,          \* attempts the Retry of the session has left
    depth,            \* calls of safe_request by itself so far
    \* A CheckpointManager built on any file, studied on its own:
    ck_file,          \* what checkpoint.json holds
    ck_data,          \* self.data
    ck_pc,            \* "idle", "load" (in __init__) or "loaded"
    ck_out,           \* outcome of the last call: a value or "raised"
    ck_calls,         \* calls of is_processed / mark_processed so far
    \* One save() with workers marking items meanwhile, studied on its own:
    sv_data,          \* self.data["processed_skus"]
    sv_file,          \* the list written to checkpoint.json so far
    sv_index,         \* position of json.dump's iteration over the list
    sv_pc,            \* "idle", "start", "iterate", "flush" or "closed"
    sv_pending,       \* IDs the workers have still to mark
    sv_seen,          \* the values self.data took since save() started
    \* One call of update_image_alt, studied on its own:
    objects,          \* the dicts in memory, by reference
    original_image_data, \* the argument: reference of the fetched record
    payload,          \* the local: a reference, 0 before it is bound
    new_alt_text,     \* the argument
    pl_pc,            \* "idle", "copy", "label", "text", "put" or "sent"
    fetched,          \* the content of the record when it was fetched
    put_body,         \* the body of the PUT, NoDict before it is sent
    \* Calls of update_image_alt and what they log, studied on their own:
    up_responses,     \* what safe_request gave each call, in order
    up_returns,       \* what each call returned
    execution_log,    \* execution_log.txt: per entry its call and level
    error_log,        \* error_log.txt, likewise
    \* One call of load_sku_list on any file, studied on its own:
    ld_exists,        \* os.path.exists(filename)
    ld_file,          \* the lines of the file
    line_num,         \* lines read so far
    ld_sku_ids,       \* the local sku_ids; the list returned, at the end
    ld_log,           \* the log entries written: per entry its line (0 for
                      \* an entry about the whole file) and level
    ld_pc,            \* "idle", "start", "read" or "returned"
    \* normalize_product_name and generate_natural_alt_text on a name and on
    \* the names that differ from it in case and blanks only:
    first_name,       \* the name first given
    first_out,        \* what normalize_product_name returned for it
    product_name,     \* the name given now
    nm_out,           \* normalize_product_name(product_name)
    nm_again,         \* normalize_product_name of that result
    nm_alt,           \* generate_natural_alt_text(product_name, ...)
    nm_pc,            \* "idle", "name" (about to call) or "called"
    \* The result loop of run_bulk_update on a list longer than
    \* CHECKPOINT_INTERVAL, with each worker taken as one step:
    pd_list,          \* sku_ids.txt: sequence of lines
    pd_file,          \* checkpoint.json: the processed_skus list on disk
    pd_data,          \* checkpoint.data["processed_skus"]
    pd_running,       \* IDs whose task has not finished
    pd_finished,      \* IDs whose future is done and not yet yielded
    pd_count,         \* processed_count
    pd_pc,            \* position of the main thread
    pd_removed        \* IDs the compactions of this execution removed

\* The batch: run_bulk_update, its workers and its files.
batch ==
    <<run, resume, listFile, ckptFile, remote, data,
      sku_ids, mpc, submitted, processed_count, yielded, raised,
      log_lock, task, loaded, prev, listFile0>>

rlvars == <<now, last_request, rl_lock, waiter, released>>

\* What the batch actions leave alone: the components studied on their own.
srvars == <<sr_pc, sr_result, answers, retries, depth>>

ckvars == <<ck_file, ck_data, ck_pc, ck_out, ck_calls>>

svvars == <<sv_data, sv_file, sv_index, sv_pc, sv_pending, sv_seen>>

plvars ==
    <<objects, original_image_data, payload, new_alt_text, pl_pc,
      fetched, put_body>>

uavars ==
    <<up_responses, up_returns, execution_log, error_log>>

ldvars ==
    <<ld_exists, ld_file, line_num, ld_sku_ids, ld_log, ld_pc>>

nmvars ==
    <<first_name, first_out, product_name, nm_out, nm_again, nm_alt, nm_pc>>

pdvars ==
    <<pd_list, pd_file, pd_data, pd_running, pd_finished, pd_count, pd_pc,
      pd_removed>>

aux ==
    <<rlvars, srvars, ckvars, svvars, plvars, uavars, ldvars, nmvars,
      pdvars>>

\* What the actions of each component leave alone.
notRateLimiter ==
    <<batch, srvars, ckvars, svvars, plvars, uavars, ldvars, nmvars,
      pdvars>>
notRequest ==
    <<batch, rlvars, ckvars, svvars, plvars, uavars, ldvars, nmvars,
      pdvars>>
notCheckpoint ==
    <<batch, rlvars, srvars, svvars, plvars, uavars, ldvars, nmvars,
      pdvars>>
notSave ==
    <<batch, rlvars, srvars, ckvars, plvars, uavars, ldvars, nmvars,
      pdvars>>

notPayload ==
    <<batch, rlvars, srvars, ckvars, svvars, uavars, ldvars, nmvars,
      pdvars>>

notUpdate ==
    <<batch, rlvars, srvars, ckvars, svvars, plvars, ldvars, nmvars,
      pdvars>>

notLoad ==
    <<batch, rlvars, srvars, ckvars, svvars, plvars, uavars, nmvars,
      pdvars>>

notName ==
    <<batch, rlvars, srvars, ckvars, svvars, plvars, uavars, ldvars,
      pdvars>>

notPeriodic ==
    <<batch, rlvars, srvars, ckvars, svvars, plvars, uavars, ldvars,
      nmvars>>

vars == <<batch, aux>>

\* ------------------------------------------------------- pure functions

DigitChars == {ToString(d) : d \in 0..9}

DigitVal(c) == CHOOSE d \in 0..9 : ToString(d) = c

strip_nothing(line) == line

\* str.strip(): the line without its leading and trailing blanks.
strip(line) ==
    LET inked == {k \in 1..Len(line) : line[k] # " "}
        Min(S) == CHOOSE k \in S : \A j \in S : k <= j
        Max(S) == CHOOSE k \in S : \A j \in S : k >= j
    IN IF inked = {} THEN <<>> ELSE SubSeq(line, Min(inked), Max(inked))

\* int(text) succeeds, for the characters that occur in the lines explored
\* here (digits, blank, "#", a letter): the text is a non-empty run of digits.
IsInt(text) == text # <<>> /\ \A k \in 1..Len(text) : text[k] \in DigitChars

RECURSIVE IntOf(_)
\* int(text) for a run of digits; leading zeros do not count.
IntOf(text) ==
    IF text = <<>> THEN 0
    ELSE 10 * IntOf(SubSeq(text, 1, Len(text) - 1)) + DigitVal(text[Len(text)])

\* int(stripped) of remove_processed_skus_from_file and int(line) of
\* load_sku_list: the ID the line denotes, for a line that is an ID line.
ParseId(line) == IntOf(strip(line))

\* The line is neither blank nor a comment, and int() accepts it.
IsIdLine(line) ==
    LET stripped == strip(line)
    IN /\ stripped # <<>>
       /\ stripped[1] # "#"
       /\ IsInt(stripped)

\* load_sku_list: the IDs of the ID lines, in file order.
load_sku_list(file) ==
    LET kept == SelectSeq(file, IsIdLine)
    IN [k \in 1..Len(kept) |-> ParseId(kept[k])]

\* remove_processed_skus_from_file: the lines it collects in remaining_lines,
remaining_lines(file, processed_skus) ==
    LET processed_set == SeqToSet(processed_skus)
        Keep(line) == ~IsIdLine(line) \/ ParseId(line) \notin processed_set
    IN SelectSeq(file, Keep)

\* the number of lines it drops,
removed_count(file, processed_skus) ==
    Len(file) - Len(remaining_lines(file, processed_skus))

\* and the file it leaves: written only "if removed_count > 0".
compacted(file, processed_skus) ==
    IF removed_count(file, processed_skus) > 0
    THEN remaining_lines(file, processed_skus)
    ELSE file

\* label.strip(): a label of blanks becomes the empty one.
label_strip(label) == IF label = Blank THEN NoLabel ELSE label

all_have_alt_equal_target(images) ==
    \A k \in 1..Len(images) : images[k] = Target

\* all(img.get('Label') and img.get('Label').strip() for img in images)
all_have_alt(images) ==
    \A k \in 1..Len(images) :
       images[k] # NoLabel /\ label_strip(images[k]) # NoLabel

needs_update_if_unlabelled(label) == label_strip(label) = NoLabel

\* "if current_label != new_alt" of the update loop.
needs_update(label) == label # Target

is_processed_never(sku_id) == FALSE

\* checkpoint.is_processed
is_processed(sku_id) == sku_id \in SeqToSet(data)

\* ------------------------------------------------------------ task state
\* pc, images, index, success, result: the task's position, its locals and its
\* future's result.  The other fields record what the task met: the requests
\* it issued, whether is_processed held at its start, the outcome of its
\* details fetch and of its image-list fetch, the statuses of its failed
\* updates, and the indexes of the images it called update_image_alt for,
\* in the order of the calls.
IdleTask ==
    [pc |-> "queued", images |-> <<>>, index |-> 0, success |-> TRUE,
     result |-> "none", req |-> {}, skipped |-> FALSE, details |-> "none",
     fetch |-> "none", failed |-> {}, puts |-> <<>>]

Sku(t) == sku_ids[t]
Submitted(t) == t \in 1..submitted
Finished(t) == Submitted(t) /\ task[t].pc = "done"
Running == {t \in Tasks : Submitted(t) /\ task[t].pc \notin {"queued", "done"}}

Done(t, res) == [task EXCEPT ![t].pc = "done", ![t].result = res]

\* log_message can take log_lock.
CanLog == log_lock = "free"

NoPrev == [ckpt |-> {}, failed |-> {}, updated |-> {}, returned |-> TRUE]

\* ----------------------------------------------------------- RateLimiter
MaxCallers == 2     \* threads that call rate_limiter.wait()
MaxCalls == 3       \* calls of wait() in all
MaxTime == 10       \* the clock stops here

\* RATE_LIMIT_DELAY, 0.3 s, in tenths of a second.
RATE_LIMIT_DELAY == 3

Callers == 1..MaxCallers

IdleWaiter == [pc |-> "idle", elapsed |-> 0, wake |-> 0]

\* RateLimiter.__init__, before any call of wait().
RateLimiterIdle ==
    /\ now = 0
    /\ last_request = 0
    /\ rl_lock = 0
    /\ waiter = [c \in Callers |-> IdleWaiter]
    /\ released = <<>>

\* ---------------------------------------------------------- safe_request
MaxDepth == 2       \* calls of safe_request by itself that are followed

MAX_RETRIES == 3

\* No call of safe_request is under study.
RequestIdle ==
    /\ sr_pc = "idle"
    /\ sr_result = "none"
    /\ answers = <<>>
    /\ retries = 0
    /\ depth = 0

\* ---------------------------------------------------- CheckpointManager
MaxCkCalls == 3     \* calls made on the CheckpointManager after load

\* What checkpoint.json holds.  A JSON value: a scalar, a list of IDs, or an
\* object whose key processed_skus is missing, a scalar or a list of IDs
\* (items); or no file at all ("absent"), or text that is no JSON ("notjson").
Json(type, key, items) == [type |-> type, key |-> key, items |-> items]

Absent == Json("absent", "none", <<>>)
NotJson == Json("notjson", "none", <<>>)

\* {"processed_skus": []}
EmptyCheckpoint == Json("object", "list", <<>>)

\* No CheckpointManager is under study.
CheckpointIdle ==
    /\ ck_file = Absent
    /\ ck_data = EmptyCheckpoint
    /\ ck_pc = "idle"
    /\ ck_out = "none"
    /\ ck_calls = 0

\* ----------------------------------------------------------------- save
MaxSaveIds == 3     \* IDs marked or to be marked around one save()

\* No save() is under study.
SaveIdle ==
    /\ sv_data = <<>>
    /\ sv_file = <<>>
    /\ sv_index = 0
    /\ sv_pc = "idle"
    /\ sv_pending = {}
    /\ sv_seen = {}

\* -------------------------------------------------- update_image_alt
MaxValues == 2      \* distinct values a field of an image record takes

\* An image record is a dict: per key its value, or Missing when the record
\* has no such key.  Label and Text are the two keys update_image_alt sets.
Fields == {"Id", "Label", "Text", "Name"}
Missing == 0
Values == 1..MaxValues
Dicts == [Fields -> Values \cup {Missing}]
NoDict == [f \in Fields |-> Missing]

\* References: the fetched record is object 1, a new dict is object 2.
FetchedObject == 1
NewObject == 2

\* No call of update_image_alt is under study.
PayloadIdle ==
    /\ objects = [r \in {FetchedObject, NewObject} |-> NoDict]
    /\ original_image_data = FetchedObject
    /\ payload = 0
    /\ new_alt_text = 1
    /\ pl_pc = "idle"
    /\ fetched = NoDict
    /\ put_body = NoDict

\* ------------------------------------- update_image_alt and its log
MaxUpdates == 3     \* calls of update_image_alt

\* No call of update_image_alt is studied for what it logs.
UpdateIdle ==
    /\ up_responses = <<>>
    /\ up_returns = <<>>
    /\ execution_log = <<>>
    /\ error_log = <<>>

\* ---------------------------------------------------------- load_sku_list
\* No call of load_sku_list is studied on its own.
LoadIdle ==
    /\ ld_exists = FALSE
    /\ ld_file = <<>>
    /\ line_num = 0
    /\ ld_sku_ids = <<>>
    /\ ld_log = <<>>
    /\ ld_pc = "idle"

\* ------------------------------------------------ normalize_product_name
MaxNameLen == 4     \* characters of a product name

\* No name is under study.
NameIdle ==
    /\ first_name = <<>>
    /\ first_out = <<>>
    /\ product_name = <<>>
    /\ nm_out = <<>>
    /\ nm_again = <<>>
    /\ nm_alt = <<>>
    /\ nm_pc = "idle"

\* ------------------------------------------- the periodic checkpoint
MaxItems == 3       \* IDs of the list; more than CHECKPOINT_INTERVAL

\* No result loop is studied on its own.
PeriodicIdle ==
    /\ pd_list = <<>>
    /\ pd_file = <<>>
    /\ pd_data = <<>>
    /\ pd_running = {}
    /\ pd_finished = {}
    /\ pd_count = 0
    /\ pd_pc = "idle"
    /\ pd_removed = {}

\* No component is studied on its own.
AuxIdle ==
    /\ RateLimiterIdle
    /\ RequestIdle
    /\ CheckpointIdle
    /\ SaveIdle
    /\ PayloadIdle
    /\ UpdateIdle
    /\ LoadIdle
    /\ NameIdle
    /\ PeriodicIdle

\* ------------------------------------------------------------------ Init
\* The checkpoint file of an earlier execution: order is immaterial to every
\* operation on it (membership only), so it is listed in increasing order.
CheckpointFiles ==
    {s \in SeqsUpTo(IDs, MaxId) : \A j, k \in 1..Len(s) : j < k => s[j] < s[k]}

Init ==
    /\ run = 1
    /\ resume \in BOOLEAN
    /\ listFile \in SeqsUpTo(Lines, MaxLines)
    /\ ckptFile \in CheckpointFiles
    /\ \E imgs \in SeqsUpTo(Labels, MaxImgs) : remote = [i \in IDs |-> imgs]
    /\ data = <<>>
    /\ sku_ids = <<>>
    /\ mpc = "start"
    /\ submitted = 0
    /\ processed_count = 0
    /\ yielded = {}
    /\ raised = "none"
    /\ log_lock = "free"
    /\ task = [t \in Tasks |-> IdleTask]
    /\ loaded = {}
    /\ prev = NoPrev
    /\ listFile0 = listFile
    /\ AuxIdle

\* ------------------------------------------------------------ the workers

\* What a request can meet.  "timeout" is safe_request's None (no response:
\* the remote may or may not have acted on the request); "named" a 200 with
\* a product name; "unnamed" a response that yields no name (a status other
\* than 200, or a 200 none of whose name fields is set); "status" a status
\* the caller has no branch of its own for; "badbody" a 200 whose body makes
\* the caller raise.
DetailsAnswers == {"timeout", "named", "unnamed", "badbody"}
FetchAnswers == {"timeout", "200", "404", "status", "badbody"}
UpdateAnswers == {"200", "401", "status", "timeout"}

\* A worker thread takes the next queued task and runs process_single_sku up
\* to the end of get_sku_details: the checkpoint lookup and, when the item is
\* not checkpointed, the details request and the branch on product_name.
process_single_sku(t) ==
    /\ Submitted(t)
    /\ task[t].pc = "queued"
    /\ \A u \in 1..(t - 1) : task[u].pc # "queued"
    /\ Cardinality(Running) < MAX_WORKERS
    /\ IF is_processed(Sku(t))
       THEN /\ CanLog
            /\ task' = [Done(t, "True") EXCEPT ![t].skipped = TRUE]
       ELSE \E answer \in DetailsAnswers :
              LET sent == [task EXCEPT ![t].req = @ \cup {"details"},
                                       ![t].details = answer]
              IN CASE answer = "named" ->
                        /\ CanLog
                        /\ task' = [sent EXCEPT ![t].pc = "images"]
                   [] answer = "badbody" ->
                        task' = [sent EXCEPT ![t].pc = "done",
                                             ![t].result = "raised"]
                   [] OTHER ->
                        /\ CanLog
                        /\ task' = [sent EXCEPT ![t].pc = "mark"]
    /\ UNCHANGED <<run, resume, listFile, ckptFile, remote, data, sku_ids,
                   mpc, submitted, processed_count, yielded, raised, log_lock,
                   loaded, prev, listFile0, aux>>

\* "if not response" in process_sku_images: true of safe_request's None and,
\* Response.__bool__ of the requests library being Response.ok, of every
\* response whose status is 400 or above, a 404 among them.
not_response(answer) == answer \in {"timeout", "404"}

\* process_sku_images up to the update loop: the image-list request and the
\* decision taken on its response.  "status" is a status below 400 other than
\* 200, which reaches the final else.
process_sku_images(t) ==
    /\ task[t].pc = "images"
    /\ \E answer \in FetchAnswers :
         LET images == remote[Sku(t)]
             kind == IF answer # "200" THEN answer
                     ELSE IF images = <<>> THEN "empty"
                     ELSE IF all_have_alt(images) THEN "labelled"
                     ELSE "unlabelled"
             sent == [task EXCEPT ![t].req = @ \cup {"images"},
                                  ![t].fetch = kind]
         IN IF not_response(answer)
            THEN /\ answer = "timeout" => CanLog
                 /\ task' = [sent EXCEPT ![t].pc = "done",
                                         ![t].result = "False"]
            ELSE CASE kind = "empty" ->
                        task' = [sent EXCEPT ![t].pc = "mark"]
                   [] kind = "labelled" ->
                        /\ CanLog
                        /\ task' = [sent EXCEPT ![t].pc = "mark",
                                                ![t].images = images]
                   [] kind = "unlabelled" ->
                        task' = [sent EXCEPT ![t].pc = "update",
                                             ![t].images = images,
                                             ![t].index = 1,
                                             ![t].success = TRUE]
                   [] kind = "badbody" ->
                        task' = [sent EXCEPT ![t].pc = "done",
                                             ![t].result = "raised"]
                   [] kind = "404" ->
                        task' = [sent EXCEPT ![t].pc = "mark"]
                   [] OTHER ->
                        /\ CanLog
                        /\ task' = [sent EXCEPT ![t].pc = "done",
                                                ![t].result = "False"]
    /\ UNCHANGED <<run, resume, listFile, ckptFile, remote, data, sku_ids,
                   mpc, submitted, processed_count, yielded, raised, log_lock,
                   loaded, prev, listFile0, aux>>

after_updates_marks_anyway(tk, t, ok) ==
    [tk EXCEPT ![t].pc = "mark"]

\* The end of process_sku_images: "if success: checkpoint.mark_processed"
\* and "return success".
after_updates(tk, t, ok) ==
    IF ok THEN [tk EXCEPT ![t].pc = "mark"]
    ELSE [tk EXCEPT ![t].pc = "done", ![t].result = "False"]

\* One iteration of the loop over images: update_image_alt for an image whose
\* label differs from the generated alt text, a skip otherwise; after the
\* last image the item is marked only if every update succeeded.  Every
\* answer but a 200 makes update_image_alt return False (a 401 response is
\* falsy, so it takes the final else like any other error response).
update_image_alt(t) ==
    /\ task[t].pc = "update"
    /\ CanLog
    /\ LET k == task[t].index
           last == k = Len(task[t].images)
           After(tk, ok) ==
               IF ~last THEN [tk EXCEPT ![t].index = k + 1]
               ELSE after_updates(tk, t, ok)
       IN IF needs_update(task[t].images[k])
          THEN \E answer \in UpdateAnswers :
                 LET sent == [task EXCEPT ![t].req = @ \cup {"put"},
                                          ![t].puts = Append(@, k)]
                     updated == [remote EXCEPT ![Sku(t)][k] = Target]
                 IN IF answer = "200"
                    THEN /\ remote' = updated
                         /\ task' = After(sent, task[t].success)
                    ELSE /\ remote' \in IF answer = "timeout"
                                        THEN {remote, updated}
                                        ELSE {remote}
                         /\ task' = After([sent EXCEPT
                                             ![t].success = FALSE,
                                             ![t].failed = @ \cup {answer}],
                                          FALSE)
          ELSE /\ remote' = remote
               /\ task' = After(task, task[t].success)
    /\ UNCHANGED <<run, resume, listFile, ckptFile, data, sku_ids, mpc,
                   submitted, processed_count, yielded, raised, log_lock,
                   loaded, prev, listFile0, aux>>

\* CheckpointManager.mark_processed, the membership test ...
mark_processed(t) ==
    /\ task[t].pc = "mark"
    /\ task' = IF Sku(t) \in SeqToSet(data)
               THEN Done(t, "True")
               ELSE [task EXCEPT ![t].pc = "append"]
    /\ UNCHANGED <<run, resume, listFile, ckptFile, remote, data, sku_ids,
                   mpc, submitted, processed_count, yielded, raised, log_lock,
                   loaded, prev, listFile0, aux>>

list_insert_front(lst, x) == <<x>> \o lst

list_append_nothing(lst, x) == lst

\* list.append(x)
list_append(lst, x) == Append(lst, x)

\* ... and the append that follows it: two steps of the interpreter, between
\* which another thread may run.
append(t) ==
    /\ task[t].pc = "append"
    /\ data' = list_append(data, Sku(t))
    /\ task' = Done(t, "True")
    /\ UNCHANGED <<run, resume, listFile, ckptFile, remote, sku_ids, mpc,
                   submitted, processed_count, yielded, raised, log_lock,
                   loaded, prev, listFile0, aux>>

\* -------------------------------------------------------- the main thread

json_dump_previous(processed_skus) == ckptFile

\* json.dump(self.data, f) into the file opened with 'w': the file then holds
\* the list as it is in memory.
json_dump(processed_skus) == processed_skus

\* run_bulk_update up to the executor: CheckpointManager(), which loads the
\* file; checkpoint.clear(), which empties and saves it, when resume is
\* False; and load_sku_list.
load ==
    /\ mpc = "start"
    /\ data' = IF resume THEN ckptFile ELSE <<>>
    /\ ckptFile' = IF resume THEN ckptFile ELSE json_dump(data')
    /\ loaded' = SeqToSet(data')
    /\ sku_ids' = load_sku_list(listFile)
    /\ mpc' = IF sku_ids' = <<>> THEN "done" ELSE "submit"
    /\ UNCHANGED <<run, resume, listFile, remote, submitted, processed_count,
                   yielded, raised, log_lock, task, prev, listFile0, aux>>

\* executor.submit for the next ID of sku_ids.
submit ==
    /\ mpc = "submit"
    /\ submitted' = submitted + 1
    /\ mpc' = IF submitted' = Len(sku_ids) THEN "collect" ELSE "submit"
    /\ UNCHANGED <<run, resume, listFile, ckptFile, remote, data, sku_ids,
                   processed_count, yielded, raised, log_lock, task, loaded,
                   prev, listFile0, aux>>

\* as_completed has no future left to yield once those of done are yielded.
Exhausted(done) == done = 1..Len(sku_ids)

loop_body_saves_always(t, count) == "periodic_save"

loop_body_reraises(t, count) ==
    IF task[t].result # "True" THEN "final_save"
    ELSE IF count % CHECKPOINT_INTERVAL = 0 THEN "periodic_save"
    ELSE IF Exhausted(yielded \cup {t}) THEN "final_save"
    ELSE "collect"

\* The body of the loop over as_completed, which never looks at the future:
\* where the main thread goes after counting a completion.
loop_body(t, count) ==
    IF count % CHECKPOINT_INTERVAL = 0 THEN "periodic_save"
    ELSE IF Exhausted(yielded \cup {t}) THEN "final_save"
    ELSE "collect"

count_completion_if_true(t, count) ==
    IF task[t].result = "True" THEN count + 1 ELSE count

\* processed_count += 1, whatever the future holds.
count_completion(t, count) == count + 1

\* One iteration of "for future in as_completed(futures)".
as_completed ==
    /\ mpc = "collect"
    /\ \E t \in Tasks :
         /\ Finished(t)
         /\ t \notin yielded
         /\ yielded' = yielded \cup {t}
         /\ processed_count' = count_completion(t, processed_count)
         /\ mpc' = loop_body(t, processed_count')
    /\ UNCHANGED <<run, resume, listFile, ckptFile, remote, data, sku_ids,
                   submitted, raised, log_lock, task, loaded, prev,
                   listFile0, aux>>

SavePoints == {"periodic_save", "final_save", "handler_save"}

AfterSave ==
    CASE mpc = "periodic_save" -> "periodic_remove"
      [] mpc = "final_save" -> "final_remove"
      [] OTHER -> "handler_remove"

\* CheckpointManager.save when the file is written.
save ==
    /\ mpc \in SavePoints
    /\ CanLog
    /\ ckptFile' = json_dump(data)
    /\ mpc' = AfterSave
    /\ UNCHANGED <<run, resume, listFile, remote, data, sku_ids, submitted,
                   processed_count, yielded, raised, log_lock, task, loaded,
                   prev, listFile0, aux>>

\* CheckpointManager.save when open() or json.dump raises, in one of the
\* saves of the batch or in the save of checkpoint.clear(): the handler calls
\* log_message while save still holds log_lock, a non-reentrant Lock.  The
\* file is as it was, or truncated by open(..., 'w').
save_error ==
    /\ mpc \in SavePoints \/ (mpc = "start" /\ ~resume)
    /\ CanLog
    /\ log_lock' = "main"
    /\ mpc' = "save_error"
    /\ ckptFile' \in {ckptFile, <<>>}
    /\ data' = IF mpc = "start" THEN <<>> ELSE data
    /\ UNCHANGED <<run, resume, listFile, remote, sku_ids, submitted,
                   processed_count, yielded, raised, task, loaded, prev,
                   listFile0, aux>>

RemovePoints == {"periodic_remove", "handler_remove", "final_remove"}

AfterRemove ==
    CASE mpc = "periodic_remove" ->
             IF Exhausted(yielded) THEN "final_save" ELSE "collect"
      [] mpc = "handler_remove" -> "final_remove"
      [] OTHER -> "done"

\* remove_processed_skus_from_file(checkpoint.data["processed_skus"]).
remove_processed_skus_from_file ==
    /\ mpc \in RemovePoints
    /\ CanLog
    /\ listFile' = compacted(listFile, data)
    /\ mpc' = AfterRemove
    /\ UNCHANGED <<run, resume, ckptFile, remote, data, sku_ids, submitted,
                   processed_count, yielded, raised, log_lock, task, loaded,
                   prev, listFile0, aux>>

\* A KeyboardInterrupt or another exception reaches the main thread inside
\* the try block; leaving the with block then runs executor.shutdown.
interrupt ==
    /\ mpc \in {"submit", "collect", "periodic_save", "periodic_remove",
               "final_save"}
    /\ raised = "none"
    /\ raised' \in {"KeyboardInterrupt", "Exception"}
    /\ mpc' = "shutdown"
    /\ UNCHANGED <<run, resume, listFile, ckptFile, remote, data, sku_ids,
                   submitted, processed_count, yielded, log_lock, task,
                   loaded, prev, listFile0, aux>>

workers_not_awaited == TRUE

\* What "with ThreadPoolExecutor(...) as executor" waits for when it is left.
workers_joined == \A t \in 1..submitted : Finished(t)

\* ThreadPoolExecutor.__exit__: shutdown(wait=True) joins the workers, which
\* first run every task already submitted.
shutdown ==
    /\ mpc = "shutdown"
    /\ workers_joined
    /\ mpc' = "handler_save"
    /\ UNCHANGED <<run, resume, listFile, ckptFile, remote, data, sku_ids,
                   submitted, processed_count, yielded, raised, log_lock,
                   task, loaded, prev, listFile0, aux>>

\* The program is started again on the files the execution left.
rerun ==
    /\ mpc = "done"
    /\ run < MaxRuns
    /\ run' = run + 1
    /\ resume' \in BOOLEAN
    /\ prev' = [ckpt |-> SeqToSet(data),
                failed |-> {Sku(t) : t \in {u \in 1..submitted :
                                              task[u].failed # {}}},
                updated |-> {Sku(t) : t \in {u \in 1..submitted :
                                               "put" \in task[u].req}},
                returned |-> raised = "none"]
    /\ listFile' \in {listFile, listFile0}
    /\ data' = <<>>
    /\ loaded' = {}
    /\ sku_ids' = <<>>
    /\ mpc' = "start"
    /\ submitted' = 0
    /\ processed_count' = 0
    /\ yielded' = {}
    /\ raised' = "none"
    /\ task' = [t \in Tasks |-> IdleTask]
    /\ UNCHANGED <<ckptFile, remote, log_lock, listFile0, aux>>

Next ==
    \/ load
    \/ submit
    \/ \E t \in Tasks : process_single_sku(t)
    \/ \E t \in Tasks : process_sku_images(t)
    \/ \E t \in Tasks : update_image_alt(t)
    \/ \E t \in Tasks : mark_processed(t)
    \/ \E t \in Tasks : append(t)
    \/ as_completed
    \/ save
    \/ save_error
    \/ remove_processed_skus_from_file
    \/ interrupt
    \/ shutdown
    \/ rerun

Spec == Init /\ [][Next]_vars

\* ------------------------------------------------- RateLimiter.wait()

\* The batch at rest, while a component is studied on its own.
BatchIdle ==
    /\ run = 1
    /\ resume = TRUE
    /\ listFile = <<>>
    /\ ckptFile = <<>>
    /\ remote = [i \in IDs |-> <<>>]
    /\ data = <<>>
    /\ sku_ids = <<>>
    /\ mpc = "start"
    /\ submitted = 0
    /\ processed_count = 0
    /\ yielded = {}
    /\ raised = "none"
    /\ log_lock = "free"
    /\ task = [t \in Tasks |-> IdleTask]
    /\ loaded = {}
    /\ prev = NoPrev
    /\ listFile0 = <<>>

\* The program starts at any time of day.
InitRateLimiter ==
    /\ BatchIdle
    /\ PeriodicIdle
    /\ NameIdle
    /\ LoadIdle
    /\ UpdateIdle
    /\ PayloadIdle
    /\ RequestIdle
    /\ CheckpointIdle
    /\ SaveIdle
    /\ now \in 0..RATE_LIMIT_DELAY
    /\ last_request = 0
    /\ rl_lock = 0
    /\ waiter = [c \in Callers |-> IdleWaiter]
    /\ released = <<>>

lock_not_taken == TRUE

\* "with self.lock": the lock can be taken when no thread holds it.
lock_acquire == rl_lock = 0

\* A thread calls wait().
wait_call(c) ==
    /\ waiter[c].pc = "idle"
    /\ Len(released) + Cardinality({d \in Callers : waiter[d].pc # "idle"})
          < MaxCalls
    /\ waiter' = [waiter EXCEPT ![c].pc = "calling"]
    /\ UNCHANGED <<notRateLimiter, now, last_request, rl_lock, released>>

\* The thread takes self.lock.
wait_enter(c) ==
    /\ waiter[c].pc = "calling"
    /\ lock_acquire
    /\ rl_lock' = c
    /\ waiter' = [waiter EXCEPT ![c].pc = "locked"]
    /\ UNCHANGED <<notRateLimiter, now, last_request, released>>

\* elapsed = time.time() - self.last_request, and the test on it.
wait_elapsed(c) ==
    /\ waiter[c].pc = "locked"
    /\ LET elapsed == now - last_request
       IN waiter' = [waiter EXCEPT
                       ![c].elapsed = elapsed,
                       ![c].pc = IF elapsed < RATE_LIMIT_DELAY
                                 THEN "sleep" ELSE "write"]
    /\ UNCHANGED <<notRateLimiter, now, last_request, rl_lock, released>>

\* time.sleep(self.delay - elapsed) is called: it returns no earlier than
\* that long after the call.
wait_sleep(c) ==
    /\ waiter[c].pc = "sleep"
    /\ waiter' = [waiter EXCEPT
                    ![c].wake = now + (RATE_LIMIT_DELAY - waiter[c].elapsed),
                    ![c].pc = "sleeping"]
    /\ UNCHANGED <<notRateLimiter, now, last_request, rl_lock, released>>

\* time.sleep returns.
wait_wake(c) ==
    /\ waiter[c].pc = "sleeping"
    /\ now >= waiter[c].wake
    /\ waiter' = [waiter EXCEPT ![c].pc = "write"]
    /\ UNCHANGED <<notRateLimiter, now, last_request, rl_lock, released>>

lock_kept(c) == c

\* The holder of self.lock once thread c has left the with block: none.
lock_after_with(c) == 0

\* self.last_request = time.time(), and the lock is released: wait() returns.
wait_release(c) ==
    /\ waiter[c].pc = "write"
    /\ last_request' = now
    /\ released' = Append(released, [at |-> now, by |-> c])
    /\ rl_lock' = lock_after_with(c)
    /\ waiter' = [waiter EXCEPT ![c] = IdleWaiter]
    /\ UNCHANGED <<notRateLimiter, now>>

\* Time passes; past MaxTime only as long as a thread sleeps.
tick ==
    /\ \/ now < MaxTime
       \/ \E c \in Callers : waiter[c].pc = "sleeping" /\ now < waiter[c].wake
    /\ now' = now + 1
    /\ UNCHANGED <<notRateLimiter, last_request, rl_lock, waiter, released>>

NextRateLimiter ==
    \/ \E c \in Callers : wait_call(c)
    \/ \E c \in Callers : wait_enter(c)
    \/ \E c \in Callers : wait_elapsed(c)
    \/ \E c \in Callers : wait_sleep(c)
    \/ \E c \in Callers : wait_wake(c)
    \/ \E c \in Callers : wait_release(c)
    \/ tick

SpecRateLimiter == InitRateLimiter /\ [][NextRateLimiter]_vars

\* -------------------------------------------------------- safe_request

\* What one attempt can meet: a response with a status, or an exception of
\* the transport.  "500" stands for the statuses 500, 502, 503 and 504, "401"
\* and "404" for the error statuses the session does not retry; "timeout" and
\* "connerr" are the failures the session retries, "other" any exception it
\* raises at once.
Statuses == {"200", "401", "404", "429", "500"}
Failures == {"timeout", "connerr", "other"}
Answers == Statuses \cup Failures

\* Retry(status_forcelist=[429, 500, 502, 503, 504]) of create_session.
status_forcelist == {"429", "500"}

\* What the session's Retry tries again, for the methods GET and PUT.
Retried(answer) == answer \in status_forcelist \cup {"timeout", "connerr"}

raise_on_status_off == FALSE

\* Retry(...) of create_session leaves urllib3's raise_on_status at its
\* default: once the retries are used up on a status of the forcelist, the
\* session raises (requests.exceptions.RetryError) and returns no response.
raise_on_status == TRUE

handler_reraises == "raised"

\* safe_request's three except clauses: each logs and returns None.
handler_result == "None"

InitRequest ==
    /\ BatchIdle
    /\ PeriodicIdle
    /\ NameIdle
    /\ LoadIdle
    /\ UpdateIdle
    /\ PayloadIdle
    /\ RateLimiterIdle
    /\ CheckpointIdle
    /\ SaveIdle
    /\ sr_pc = "request"
    /\ sr_result = "none"
    /\ answers = <<>>
    /\ retries = MAX_RETRIES
    /\ depth = 0

\* An attempt of SESSION.request that the session retries by itself.
adapter_retry ==
    /\ sr_pc = "request"
    /\ retries > 0
    /\ \E answer \in Answers :
         /\ Retried(answer)
         /\ answers' = Append(answers, answer)
    /\ retries' = retries - 1
    /\ UNCHANGED <<notRequest, sr_pc, sr_result, depth>>

\* The attempt that ends SESSION.request, and what safe_request does with
\* its outcome: an exception is caught and None returned; a 429 response
\* makes safe_request sleep and call itself; any other response is returned.
safe_request ==
    /\ sr_pc = "request"
    /\ \E answer \in Answers :
         /\ Retried(answer) => retries = 0
         /\ answers' = Append(answers, answer)
         /\ LET raises == \/ answer \in Failures
                          \/ answer \in status_forcelist /\ raise_on_status
            IN IF raises
               THEN /\ sr_result' = handler_result
                    /\ sr_pc' = "returned"
                    /\ UNCHANGED <<retries, depth>>
               ELSE IF answer = "429"
               THEN /\ depth < MaxDepth
                    /\ depth' = depth + 1
                    /\ retries' = MAX_RETRIES
                    /\ UNCHANGED <<sr_pc, sr_result>>
               ELSE /\ sr_result' = answer
                    /\ sr_pc' = "returned"
                    /\ UNCHANGED <<retries, depth>>
    /\ UNCHANGED notRequest

NextRequest == adapter_retry \/ safe_request

SpecRequest == InitRequest /\ [][NextRequest]_vars

\* ------------------------------- remove_processed_skus_from_file alone
MaxFileLines == 3   \* lines of the files compacted

\* Lines as an operator writes them: IDs bare, padded with blanks, with a
\* leading zero or of two digits; an empty and a blank line; a comment that
\* holds an ID; text that is no integer.
FileLines ==
    {<<"1">>, <<"2">>, <<" ", "2", " ">>, <<"0", "1">>, <<"1", "2">>,
     <<>>, <<" ">>, <<"#", "1">>, <<"1", "x">>}

\* The main thread is about to compact some file for some checkpoint.
InitCompact ==
    /\ run = 1
    /\ resume = TRUE
    /\ listFile \in SeqsUpTo(FileLines, MaxFileLines)
    /\ ckptFile = <<>>
    /\ remote = [i \in IDs |-> <<>>]
    /\ data \in CheckpointFiles
    /\ sku_ids = <<>>
    /\ mpc = "final_remove"
    /\ submitted = 0
    /\ processed_count = 0
    /\ yielded = {}
    /\ raised = "none"
    /\ log_lock = "free"
    /\ task = [t \in Tasks |-> IdleTask]
    /\ loaded = {}
    /\ prev = NoPrev
    /\ listFile0 = listFile
    /\ AuxIdle

SpecCompact == InitCompact /\ [][remove_processed_skus_from_file]_vars

\* ------------------------------------------- CheckpointManager alone

\* The JSON values explored.
JsonValues ==
    {Json("scalar", "none", <<>>)}
    \cup {Json("list", "none", s) : s \in CheckpointFiles}
    \cup {Json("object", "missing", <<>>), Json("object", "scalar", <<>>)}
    \cup {Json("object", "list", s) : s \in CheckpointFiles}

CheckpointContents == {Absent, NotJson} \cup JsonValues

\* self.data["processed_skus"] is a list: the subscript and the operations
\* on its value ("in", append) do not raise.
HasList(d) == d.type = "object" /\ d.key = "list"

\* CheckpointManager.load: json.load's value whatever it is, and the empty
\* checkpoint when there is no file or json.load raises.
CheckpointManager_load(file) ==
    IF file \in JsonValues THEN file ELSE EmptyCheckpoint

InitCheckpoint ==
    /\ BatchIdle
    /\ PeriodicIdle
    /\ NameIdle
    /\ LoadIdle
    /\ UpdateIdle
    /\ PayloadIdle
    /\ RateLimiterIdle
    /\ RequestIdle
    /\ SaveIdle
    /\ ck_file \in CheckpointContents
    /\ ck_data = EmptyCheckpoint
    /\ ck_pc = "load"
    /\ ck_out = "none"
    /\ ck_calls = 0

\* CheckpointManager.__init__: self.data = self.load().
ck_init ==
    /\ ck_pc = "load"
    /\ ck_data' = CheckpointManager_load(ck_file)
    /\ ck_pc' = "loaded"
    /\ ck_out' = "returned"
    /\ UNCHANGED <<notCheckpoint, ck_file, ck_calls>>

\* checkpoint.is_processed(sku_id): sku_id in self.data["processed_skus"].
ck_is_processed(sku_id) ==
    /\ ck_pc = "loaded"
    /\ ck_calls < MaxCkCalls
    /\ ck_calls' = ck_calls + 1
    /\ ck_out' = IF ~HasList(ck_data) THEN "raised"
                 ELSE IF sku_id \in SeqToSet(ck_data.items) THEN "True"
                 ELSE "False"
    /\ UNCHANGED <<notCheckpoint, ck_file, ck_data, ck_pc>>

\* checkpoint.mark_processed(sku_id).
ck_mark_processed(sku_id) ==
    /\ ck_pc = "loaded"
    /\ ck_calls < MaxCkCalls
    /\ ck_calls' = ck_calls + 1
    /\ IF ~HasList(ck_data)
       THEN ck_out' = "raised" /\ ck_data' = ck_data
       ELSE /\ ck_out' = "returned"
            /\ ck_data' =
                  IF sku_id \in SeqToSet(ck_data.items) THEN ck_data
                  ELSE [ck_data EXCEPT !.items = Append(@, sku_id)]
    /\ UNCHANGED <<notCheckpoint, ck_file, ck_pc>>

NextCheckpoint ==
    \/ ck_init
    \/ \E sku_id \in IDs : ck_is_processed(sku_id)
    \/ \E sku_id \in IDs : ck_mark_processed(sku_id)

SpecCheckpoint == InitCheckpoint /\ [][NextCheckpoint]_vars

\* ----------------------------------- save() while the workers mark items

SaveIds == 1..MaxSaveIds

\* The lists mark_processed can have built from some of the IDs.
SavedLists ==
    {s \in SeqsUpTo(SaveIds, MaxSaveIds) :
        \A j, k \in 1..Len(s) : j # k => s[j] # s[k]}

\* save() is called while some IDs are marked and workers are about to
\* mark the others.
InitSave ==
    /\ BatchIdle
    /\ PeriodicIdle
    /\ NameIdle
    /\ LoadIdle
    /\ UpdateIdle
    /\ PayloadIdle
    /\ RateLimiterIdle
    /\ RequestIdle
    /\ CheckpointIdle
    /\ sv_data \in SavedLists
    /\ sv_file = <<>>
    /\ sv_index = 0
    /\ sv_pc = "start"
    /\ sv_pending \in SUBSET (SaveIds \ SeqToSet(sv_data))
    /\ sv_seen = {sv_data}

\* A worker's checkpoint.mark_processed(sku_id), taken here in one step.
sv_mark_processed(sku_id) ==
    /\ sv_pc # "idle"
    /\ sku_id \in sv_pending
    /\ sv_pending' = sv_pending \ {sku_id}
    /\ sv_data' = IF sku_id \in SeqToSet(sv_data) THEN sv_data
                  ELSE list_append(sv_data, sku_id)
    /\ sv_seen' = IF sv_pc = "closed" THEN sv_seen
                  ELSE sv_seen \cup {sv_data'}
    /\ UNCHANGED <<notSave, sv_file, sv_index, sv_pc>>

\* open(self.filename, 'w') truncates the file and json.dump starts on
\* self.data: an empty list is written as "[]" without iterating it.
sv_open ==
    /\ sv_pc = "start"
    /\ sv_file' = <<>>
    /\ sv_index' = 1
    /\ sv_pc' = IF sv_data = <<>> THEN "flush" ELSE "iterate"
    /\ UNCHANGED <<notSave, sv_data, sv_pending, sv_seen>>

\* One step of json.dump's "for value in lst" over the live list: the next
\* element is written, or the iteration ends because the position is past
\* the list's present end; then the file is closed.
sv_dump ==
    /\ sv_pc \in {"iterate", "flush"}
    /\ IF sv_pc = "iterate" /\ sv_index <= Len(sv_data)
       THEN /\ sv_file' = Append(sv_file, sv_data[sv_index])
            /\ sv_index' = sv_index + 1
            /\ sv_pc' = sv_pc
       ELSE /\ sv_pc' = "closed"
            /\ UNCHANGED <<sv_file, sv_index>>
    /\ UNCHANGED <<notSave, sv_data, sv_pending, sv_seen>>

NextSave ==
    \/ \E sku_id \in SaveIds : sv_mark_processed(sku_id)
    \/ sv_open
    \/ sv_dump

SpecSave == InitSave /\ [][NextSave]_vars

\* ------------------------------------------------ one item, two images
\* run_bulk_update on a list of one item whose image list has up to
\* MaxItemImgs records, labels of blanks among them: what the image pass of
\* process_sku_images does with each record, in one execution and the next.
ItemLabels == Labels \cup {Blank}

InitItem ==
    /\ run = 1
    /\ resume \in BOOLEAN
    /\ listFile = <<IdLine(1)>>
    /\ ckptFile \in {<<>>, <<1>>}
    /\ \E imgs \in SeqsUpTo(ItemLabels, MaxItemImgs) :
         remote = [i \in IDs |-> imgs]
    /\ data = <<>>
    /\ sku_ids = <<>>
    /\ mpc = "start"
    /\ submitted = 0
    /\ processed_count = 0
    /\ yielded = {}
    /\ raised = "none"
    /\ log_lock = "free"
    /\ task = [t \in Tasks |-> IdleTask]
    /\ loaded = {}
    /\ prev = NoPrev
    /\ listFile0 = listFile
    /\ AuxIdle

SpecItem == InitItem /\ [][Next]_vars

\* ------------------------------------- the payload of update_image_alt
\* update_image_alt is called with a fetched record and an alt text.
InitPayload ==
    /\ BatchIdle
    /\ PeriodicIdle
    /\ NameIdle
    /\ LoadIdle
    /\ UpdateIdle
    /\ RateLimiterIdle
    /\ RequestIdle
    /\ CheckpointIdle
    /\ SaveIdle
    /\ fetched \in Dicts
    /\ objects = [r \in {FetchedObject, NewObject} |->
                    IF r = FetchedObject THEN fetched ELSE NoDict]
    /\ original_image_data = FetchedObject
    /\ payload = 0
    /\ new_alt_text \in 1..(MaxValues + 1)
    /\ pl_pc = "copy"
    /\ put_body = NoDict

dict_copy_same_object(ref) == ref

\* dict.copy(): the reference of a new dict; the action gives it the keys
\* and values of the dict copied.
dict_copy(ref) == NewObject

\* payload = original_image_data.copy()
pl_copy ==
    /\ pl_pc = "copy"
    /\ payload' = dict_copy(original_image_data)
    /\ objects' = [objects EXCEPT ![payload'] = objects[original_image_data]]
    /\ pl_pc' = "label"
    /\ UNCHANGED <<notPayload, original_image_data, new_alt_text, fetched,
                   put_body>>

\* payload["Label"] = new_alt_text
pl_set_label ==
    /\ pl_pc = "label"
    /\ objects' = [objects EXCEPT ![payload]["Label"] = new_alt_text]
    /\ pl_pc' = "text"
    /\ UNCHANGED <<notPayload, original_image_data, payload, new_alt_text,
                   fetched, put_body>>

\* payload["Text"] = new_alt_text
pl_set_text ==
    /\ pl_pc = "text"
    /\ objects' = [objects EXCEPT ![payload]["Text"] = new_alt_text]
    /\ pl_pc' = "put"
    /\ UNCHANGED <<notPayload, original_image_data, payload, new_alt_text,
                   fetched, put_body>>

\* safe_request('PUT', url, json=payload): the body is the dict as it is now.
pl_put ==
    /\ pl_pc = "put"
    /\ put_body' = objects[payload]
    /\ pl_pc' = "sent"
    /\ UNCHANGED <<notPayload, objects, original_image_data, payload,
                   new_alt_text, fetched>>

NextPayload ==
    \/ pl_copy
    \/ pl_set_label
    \/ pl_set_text
    \/ pl_put

SpecPayload == InitPayload /\ [][NextPayload]_vars

\* ------------------------------ what update_image_alt returns and logs
\* What safe_request gives update_image_alt: None (here 0) or a response,
\* represented by its status.
None == 0
Responses == {None, 200, 204, 401, 404}

\* Response.ok of the requests library: the status is below 400.
ok(response) == response < 400

\* bool(response): None is false, and Response.__bool__ returns self.ok.
truth(response) == response # None /\ ok(response)

\* log_message(message, level): the files after the entry is written.
log_message(call, level) ==
    LET entry == [call |-> call, level |-> level]
    IN /\ execution_log' = Append(execution_log, entry)
       /\ error_log' = IF level \in {"ERROR", "CRITICAL"}
                       THEN Append(error_log, entry)
                       ELSE error_log

InitUpdate ==
    /\ BatchIdle
    /\ PeriodicIdle
    /\ NameIdle
    /\ LoadIdle
    /\ RateLimiterIdle
    /\ RequestIdle
    /\ CheckpointIdle
    /\ SaveIdle
    /\ PayloadIdle
    /\ up_responses = <<>>
    /\ up_returns = <<>>
    /\ execution_log = <<>>
    /\ error_log = <<>>

\* One call of update_image_alt, from the response of its PUT on.
update_image_alt_returns ==
    /\ Len(up_responses) < MaxUpdates
    /\ \E response \in Responses :
         LET call == Len(up_responses) + 1
         IN /\ up_responses' = Append(up_responses, response)
            /\ IF truth(response) /\ response = 200
               THEN /\ log_message(call, "INFO")
                    /\ up_returns' = Append(up_returns, TRUE)
               ELSE IF truth(response) /\ response = 401
               THEN /\ log_message(call, "CRITICAL")
                    /\ up_returns' = Append(up_returns, FALSE)
               ELSE /\ log_message(call, "ERROR")
                    /\ up_returns' = Append(up_returns, FALSE)
    /\ UNCHANGED notUpdate

SpecUpdate == InitUpdate /\ [][update_image_alt_returns]_vars

\* ------------------------------------------------- load_sku_list alone
\* The lines of FileLines and a comment written after a blank.
LoadLines == FileLines \cup {<<" ", "#", "1">>}

\* load_sku_list is called on a file, or on the name of no file.
InitLoad ==
    /\ BatchIdle
    /\ PeriodicIdle
    /\ NameIdle
    /\ RateLimiterIdle
    /\ RequestIdle
    /\ CheckpointIdle
    /\ SaveIdle
    /\ PayloadIdle
    /\ UpdateIdle
    /\ ld_exists \in BOOLEAN
    /\ ld_file \in IF ld_exists THEN SeqsUpTo(LoadLines, MaxFileLines)
                  ELSE {<<>>}
    /\ line_num = 0
    /\ ld_sku_ids = <<>>
    /\ ld_log = <<>>
    /\ ld_pc = "start"

\* "if not os.path.exists(filename)": a CRITICAL entry and an empty list.
ld_exists_test ==
    /\ ld_pc = "start"
    /\ IF ld_exists
       THEN /\ ld_pc' = "read"
            /\ UNCHANGED ld_log
       ELSE /\ ld_pc' = "returned"
            /\ ld_log' = Append(ld_log, [line |-> 0, level |-> "CRITICAL"])
    /\ UNCHANGED <<notLoad, ld_exists, ld_file, line_num, ld_sku_ids>>

value_error_propagates == "raise"

\* What "except ValueError" around int(line) does: it logs a WARNING and the
\* loop goes on.
value_error_handler == "warn"

\* One iteration of "for line_num, line in enumerate(f, 1)".  A ValueError
\* that left the loop would be caught by the outer "except Exception":
\* a CRITICAL entry and an empty list.
ld_read_line ==
    /\ ld_pc = "read"
    /\ line_num < Len(ld_file)
    /\ line_num' = line_num + 1
    /\ LET line == strip(ld_file[line_num'])
       IN IF line = <<>> \/ line[1] = "#"
          THEN UNCHANGED <<ld_sku_ids, ld_log, ld_pc>>
          ELSE IF IsInt(line)
          THEN /\ ld_sku_ids' = Append(ld_sku_ids, IntOf(line))
               /\ UNCHANGED <<ld_log, ld_pc>>
          ELSE IF value_error_handler = "warn"
          THEN /\ ld_log' = Append(ld_log, [line |-> line_num',
                                            level |-> "WARNING"])
               /\ UNCHANGED <<ld_sku_ids, ld_pc>>
          ELSE /\ ld_log' = Append(ld_log, [line |-> 0,
                                            level |-> "CRITICAL"])
               /\ ld_sku_ids' = <<>>
               /\ ld_pc' = "returned"
    /\ UNCHANGED <<notLoad, ld_exists, ld_file>>

\* The end of the file: the "Loaded ..." entry and "return sku_ids".
ld_return ==
    /\ ld_pc = "read"
    /\ line_num = Len(ld_file)
    /\ ld_log' = Append(ld_log, [line |-> 0, level |-> "INFO"])
    /\ ld_pc' = "returned"
    /\ UNCHANGED <<notLoad, ld_exists, ld_file, line_num, ld_sku_ids>>

NextLoad ==
    \/ ld_exists_test
    \/ ld_read_line
    \/ ld_return

SpecLoad == InitLoad /\ [][NextLoad]_vars

\* ---------------------- normalize_product_name, generate_natural_alt_text
\* A name is the sequence of its characters: letters of either case, the
\* blank and the tab.
Tab == "\t"
Whitespace == {" ", Tab}
UpperOf == [c \in {"a", "b"} |-> IF c = "a" THEN "A" ELSE "B"]
NameChars == {"a", "b", "A", "B"} \cup Whitespace
Names == SeqsUpTo(NameChars, MaxNameLen)

\* "produto farmacêutico"
Placeholder ==
    <<"p", "r", "o", "d", "u", "t", "o", " ",
      "f", "a", "r", "m", "a", "c", "ê", "u", "t", "i", "c", "o">>

RECURSIVE str_split(_)
\* str.split(): the maximal runs of characters that are no whitespace.
str_split(text) ==
    IF text = <<>> THEN <<>>
    ELSE IF text[1] \in Whitespace THEN str_split(Tail(text))
    ELSE LET spaces == {k \in 1..Len(text) : text[k] \in Whitespace}
             n == IF spaces = {} THEN Len(text)
                  ELSE (CHOOSE k \in spaces : \A j \in spaces : k <= j) - 1
         IN <<SubSeq(text, 1, n)>> \o str_split(SubSeq(text, n + 1, Len(text)))

RECURSIVE str_join(_)
\* " ".join(words)
str_join(words) ==
    IF words = <<>> THEN <<>>
    ELSE IF Len(words) = 1 THEN words[1]
    ELSE words[1] \o <<" ">> \o str_join(Tail(words))

str_lower_nothing(text) == text

\* str.lower()
str_lower(text) ==
    [k \in 1..Len(text) |->
        IF \E c \in DOMAIN UpperOf : UpperOf[c] = text[k]
        THEN CHOOSE c \in DOMAIN UpperOf : UpperOf[c] = text[k]
        ELSE text[k]]

RECURSIVE str_replace(_)
\* str.replace("  ", " "): each pair of blanks, taken from the left and
\* without overlap, becomes one blank.
str_replace(text) ==
    IF Len(text) < 2 THEN text
    ELSE IF text[1] = " " /\ text[2] = " "
    THEN <<" ">> \o str_replace(SubSeq(text, 3, Len(text)))
    ELSE <<text[1]>> \o str_replace(Tail(text))

\* str.strip(): the text without its leading and trailing whitespace.
str_strip(text) ==
    LET inked == {k \in 1..Len(text) : text[k] \notin Whitespace}
        Min(S) == CHOOSE k \in S : \A j \in S : k <= j
        Max(S) == CHOOSE k \in S : \A j \in S : k >= j
    IN IF inked = {} THEN <<>> ELSE SubSeq(text, Min(inked), Max(inked))

normalize_product_name(name) ==
    IF name = <<>> THEN <<>>
    ELSE str_strip(str_replace(str_lower(str_join(str_split(name)))))

\* generate_natural_alt_text(product_name, image_index, total_images): the
\* two numbers are not used.
generate_natural_alt_text(name) ==
    LET normalized_name == normalize_product_name(name)
    IN IF normalized_name = <<>> THEN Placeholder ELSE normalized_name

InitName ==
    /\ BatchIdle
    /\ PeriodicIdle
    /\ RateLimiterIdle
    /\ RequestIdle
    /\ CheckpointIdle
    /\ SaveIdle
    /\ PayloadIdle
    /\ UpdateIdle
    /\ LoadIdle
    /\ first_name \in Names
    /\ first_out = <<>>
    /\ product_name = first_name
    /\ nm_out = <<>>
    /\ nm_again = <<>>
    /\ nm_alt = <<>>
    /\ nm_pc = "name"

\* The two functions are called on the name, and normalize_product_name on
\* its own result.
nm_call ==
    /\ nm_pc = "name"
    /\ nm_out' = normalize_product_name(product_name)
    /\ nm_again' = normalize_product_name(nm_out')
    /\ nm_alt' = generate_natural_alt_text(product_name)
    /\ first_out' = IF product_name = first_name THEN nm_out' ELSE first_out
    /\ nm_pc' = "called"
    /\ UNCHANGED <<notName, first_name, product_name>>

\* The character at position k of the name is whitespace.
WhitespaceAt(name, k) == k \in 1..Len(name) /\ name[k] \in Whitespace

\* The next name differs from this one in the case of one letter.
nm_change_case ==
    /\ nm_pc = "called"
    /\ \E k \in 1..Len(product_name) :
         LET c == product_name[k]
             other == IF c \in DOMAIN UpperOf THEN UpperOf[c]
                      ELSE CHOOSE d \in DOMAIN UpperOf : UpperOf[d] = c
         IN /\ c \notin Whitespace
            /\ product_name' = [product_name EXCEPT ![k] = other]
    /\ nm_pc' = "name"
    /\ UNCHANGED <<notName, first_name, first_out, nm_out, nm_again, nm_alt>>

\* One whitespace character more: before the name, after it, or next to
\* whitespace that is inside it.
nm_more_whitespace ==
    /\ nm_pc = "called"
    /\ Len(product_name) < MaxNameLen
    /\ \E k \in 0..Len(product_name), w \in Whitespace :
         /\ \/ k = 0
            \/ k = Len(product_name)
            \/ WhitespaceAt(product_name, k)
            \/ WhitespaceAt(product_name, k + 1)
         /\ product_name' = SubSeq(product_name, 1, k) \o <<w>> \o
                             SubSeq(product_name, k + 1, Len(product_name))
    /\ nm_pc' = "name"
    /\ UNCHANGED <<notName, first_name, first_out, nm_out, nm_again, nm_alt>>

\* One whitespace character less: the first or last character of the name,
\* or one that is next to other whitespace.
nm_less_whitespace ==
    /\ nm_pc = "called"
    /\ \E k \in 1..Len(product_name) :
         /\ product_name[k] \in Whitespace
         /\ \/ k = 1
            \/ k = Len(product_name)
            \/ WhitespaceAt(product_name, k - 1)
            \/ WhitespaceAt(product_name, k + 1)
         /\ product_name' = SubSeq(product_name, 1, k - 1) \o
                             SubSeq(product_name, k + 1, Len(product_name))
    /\ nm_pc' = "name"
    /\ UNCHANGED <<notName, first_name, first_out, nm_out, nm_again, nm_alt>>

NextName ==
    \/ nm_call
    \/ nm_change_case
    \/ nm_more_whitespace
    \/ nm_less_whitespace

SpecName == InitName /\ [][NextName]_vars

\* --------------------------- the result loop with workers still running
Items == 1..MaxItems

\* One task per ID of the list has been submitted; the checkpoint is empty.
InitPeriodic ==
    /\ BatchIdle
    /\ RateLimiterIdle
    /\ RequestIdle
    /\ CheckpointIdle
    /\ SaveIdle
    /\ PayloadIdle
    /\ UpdateIdle
    /\ LoadIdle
    /\ NameIdle
    /\ pd_list = [i \in Items |-> IdLine(i)]
    /\ pd_file = <<>>
    /\ pd_data = <<>>
    /\ pd_running = Items
    /\ pd_finished = {}
    /\ pd_count = 0
    /\ pd_pc = "collect"
    /\ pd_removed = {}

\* A worker runs process_single_sku(sku_id) to its end: it has called
\* checkpoint.mark_processed(sku_id) or has left the item unresolved.  The
\* main thread may be anywhere in its loop meanwhile.
pd_process_single_sku(sku_id) ==
    /\ sku_id \in pd_running
    /\ pd_running' = pd_running \ {sku_id}
    /\ pd_finished' = pd_finished \cup {sku_id}
    /\ pd_data' \in {pd_data, list_append(pd_data, sku_id)}
    /\ UNCHANGED <<notPeriodic, pd_list, pd_file, pd_count, pd_pc,
                   pd_removed>>

\* "for future in as_completed(futures)": a finished future is yielded,
\* or the loop ends; processed_count += 1 and the test on it.
pd_as_completed ==
    /\ pd_pc = "collect"
    /\ IF pd_count = MaxItems
       THEN /\ pd_pc' = "final_save"
            /\ UNCHANGED <<pd_finished, pd_count>>
       ELSE \E sku_id \in pd_finished :
              /\ pd_finished' = pd_finished \ {sku_id}
              /\ pd_count' = pd_count + 1
              /\ pd_pc' = IF pd_count' % CHECKPOINT_INTERVAL = 0
                          THEN "periodic_save" ELSE "collect"
    /\ UNCHANGED <<notPeriodic, pd_list, pd_file, pd_data, pd_running,
                   pd_removed>>

\* checkpoint.save(), the file being written.
pd_save ==
    /\ pd_pc \in {"periodic_save", "final_save"}
    /\ pd_file' = json_dump(pd_data)
    /\ pd_pc' = IF pd_pc = "periodic_save" THEN "periodic_remove"
                ELSE "final_remove"
    /\ UNCHANGED <<notPeriodic, pd_list, pd_data, pd_running, pd_finished,
                   pd_count, pd_removed>>

\* remove_processed_skus_from_file(checkpoint.data["processed_skus"]): the
\* argument is the list in memory as it is when the call is made.
pd_remove_processed_skus_from_file ==
    /\ pd_pc \in {"periodic_remove", "final_remove"}
    /\ pd_list' = compacted(pd_list, pd_data)
    /\ pd_removed' = pd_removed \cup
                        (SeqToSet(load_sku_list(pd_list)) \
                           SeqToSet(load_sku_list(pd_list')))
    /\ pd_pc' = IF pd_pc = "periodic_remove" THEN "collect" ELSE "done"
    /\ UNCHANGED <<notPeriodic, pd_file, pd_data, pd_running, pd_finished,
                   pd_count>>

NextPeriodic ==
    \/ \E sku_id \in Items : pd_process_single_sku(sku_id)
    \/ pd_as_completed
    \/ pd_save
    \/ pd_remove_processed_skus_from_file

SpecPeriodic == InitPeriodic /\ [][NextPeriodic]_vars

\* ------------------------------------------------------------ progress
\* Executions in which every file write succeeds (no save_error) and every
\* request is answered or times out, under fair scheduling: the batch on a
\* list of two items that need an update, and the RateLimiter with its
\* callers, each on its own.
InitLive ==
    \/ InitRateLimiter
    \/ /\ run = 1
       /\ resume \in BOOLEAN
       /\ listFile = <<IdLine(1), IdLine(MaxId)>>
       /\ ckptFile = <<>>
       /\ remote = [i \in IDs |-> <<NoLabel>>]
       /\ data = <<>>
       /\ sku_ids = <<>>
       /\ mpc = "start"
       /\ submitted = 0
       /\ processed_count = 0
       /\ yielded = {}
       /\ raised = "none"
       /\ log_lock = "free"
       /\ task = [t \in Tasks |-> IdleTask]
       /\ loaded = {}
       /\ prev = NoPrev
       /\ listFile0 = listFile
       /\ AuxIdle

\* Which of the two is under study: the batch has been given a list.
BatchStudied == listFile0 # <<>>

\* The steps of the worker threads, of the main thread, of the environment
\* (a KeyboardInterrupt) and of the RateLimiter, in one execution.
Worker(t) ==
    \/ process_single_sku(t)
    \/ process_sku_images(t)
    \/ update_image_alt(t)
    \/ mark_processed(t)
    \/ append(t)

MainThread ==
    \/ load
    \/ submit
    \/ as_completed
    \/ save
    \/ remove_processed_skus_from_file
    \/ shutdown

Waiting(c) ==
    \/ wait_elapsed(c)
    \/ wait_sleep(c)
    \/ wait_wake(c)
    \/ wait_release(c)

NextLive ==
    \/ BatchStudied /\ \E t \in Tasks : Worker(t)
    \/ BatchStudied /\ MainThread
    \/ BatchStudied /\ interrupt
    \/ ~BatchStudied /\ \E c \in Callers : wait_call(c)
    \/ ~BatchStudied /\ \E c \in Callers : wait_enter(c)
    \/ ~BatchStudied /\ \E c \in Callers : Waiting(c)
    \/ ~BatchStudied /\ tick

\* Every thread that can take a step takes one, a thread for which
\* self.lock stays free takes it, and time passes.
Fairness ==
    /\ \A t \in Tasks : WF_vars(BatchStudied /\ Worker(t))
    /\ WF_vars(BatchStudied /\ MainThread)
    /\ \A c \in Callers : WF_vars(~BatchStudied /\ wait_enter(c))
    /\ \A c \in Callers : WF_vars(~BatchStudied /\ Waiting(c))
    /\ WF_vars(~BatchStudied /\ tick)

SpecLive == InitLive /\ [][NextLive]_vars /\ Fairness

\* ------------------------------------------------------------ the claims

Started == {t \in 1..submitted : task[t].pc # "queued"}

\* C1: a task whose item ID is in the checkpoint when the task starts, and in
\* particular every task of an ID of the checkpoint file loaded by this
\* execution, issues no request at all (no details fetch, no image-list
\* fetch, no update) and returns True.
C1_CheckpointedIssuesNoRequest ==
    \A t \in 1..submitted :
        (task[t].skipped \/ Sku(t) \in loaded) =>
            /\ task[t].req = {}
            /\ task[t].pc \in {"queued", "done"}
            /\ task[t].pc = "done" => task[t].result = "True" /\ task[t].skipped

\* A second execution, resumed from the checkpoint the first one wrote, has
\* run the task of an ID which that checkpoint holds.
C1_Witness ==
    /\ run = 2 /\ resume
    /\ \E t \in Started :
          Sku(t) \in loaded /\ Sku(t) \in prev.ckpt /\ task[t].pc = "done"

C3_NoImagesIsProcessed ==
    \A t \in Started :
        (task[t].details = "named" /\ task[t].fetch \in {"empty", "404"}) =>
            /\ "put" \notin task[t].req
            /\ task[t].pc \in {"mark", "append", "done"}
            /\ task[t].pc = "done" =>
                   task[t].result = "True" /\ Sku(t) \in SeqToSet(data)

TimedOut(t) ==
    \/ task[t].details = "timeout"
    \/ task[t].fetch = "timeout"
    \/ "timeout" \in task[t].failed

\* C4 as stated: a task one of whose requests (details fetch, image-list
\* fetch, image update) ended without a response leaves its item unresolved:
\* it does not go on to mark the item processed and it does not return True.
C4_NoResponseLeavesUnresolved ==
    \A t \in Started :
        TimedOut(t) =>
            /\ task[t].pc \notin {"mark", "append"}
            /\ task[t].result # "True"

C6_NoDuplicateInCheckpoint ==
    \A j, k \in 1..Len(data) : j # k => data[j] # data[k]

\* C7 as stated: no two tasks are in the update loop for the same item ID at
\* the same time.
C7_OneUpdaterPerItem ==
    \A t, u \in Started :
        (t # u /\ task[t].pc = "update" /\ task[u].pc = "update") =>
            Sku(t) # Sku(u)

IdsInFile(file) == SeqToSet(load_sku_list(file))

\* C8: when run_bulk_update has returned after submitting tasks (by normal
\* completion, after a KeyboardInterrupt or after another exception in the
\* batch loop) the checkpoint file holds every ID of the in-memory checkpoint
\* and the list file holds none of them, and no task is still running.
C8_FinalSaveAndCompaction ==
    (mpc = "done" /\ submitted > 0) =>
        /\ SeqToSet(data) \subseteq SeqToSet(ckptFile)
        /\ IdsInFile(listFile) \cap SeqToSet(data) = {}
        /\ \A t \in 1..submitted : task[t].pc = "done"

\* run_bulk_update has returned after a KeyboardInterrupt that left part of
\* the list unsubmitted, and an ID checkpointed by this execution is gone
\* from the list file.
C8_Witness ==
    /\ mpc = "done"
    /\ raised = "KeyboardInterrupt"
    /\ 0 < submitted /\ submitted < Len(sku_ids)
    /\ SeqToSet(data) \ loaded # {}
    /\ listFile # listFile0

\* log_message called by save()'s exception handler: it needs log_lock.
log_message_in_save ==
    /\ mpc = "save_error"
    /\ CanLog
    /\ mpc' = "done"
    /\ UNCHANGED <<run, resume, listFile, ckptFile, remote, data, sku_ids,
                   submitted, processed_count, yielded, raised, log_lock,
                   task, loaded, prev, listFile0, aux>>

\* C9 as stated: when writing the checkpoint file fails inside save(), the
\* error is logged and save() returns: the main thread, which has reached the
\* call of log_message in the handler, can take that step.
C9_SaveReturnsAfterWriteError ==
    mpc = "save_error" => ENABLED log_message_in_save

\* C10: when an execution that was not interrupted has returned, every ID of
\* the loaded list was submitted and its task has run to an outcome of its
\* own (True, False or an exception kept in its future), and every
\* completion was counted.
C10_EveryItemIsProcessed ==
    (mpc = "done" /\ raised = "none") =>
        /\ submitted = Len(sku_ids)
        /\ processed_count = Len(sku_ids)
        /\ \A t \in 1..Len(sku_ids) :
              /\ task[t].pc = "done"
              /\ task[t].result \in {"True", "False", "raised"}

\* An uninterrupted execution has returned; one of its tasks raised or
\* returned False, and the task submitted after it ran to True.
C10_Witness ==
    /\ mpc = "done" /\ raised = "none"
    /\ \E t, u \in 1..Len(sku_ids) :
          /\ t < u
          /\ task[t].result \in {"False", "raised"}
          /\ task[u].result = "True" /\ ~task[u].skipped

\* C11: for any number of callers and any interleaving, two consecutive
\* releases of wait() (writes of last_request) are at least the delay apart,
\* so the N releases so far span at least (N - 1) times the delay.
C11_MinimumSpacing ==
    /\ \A k \in 1..(Len(released) - 1) :
          released[k + 1].at - released[k].at >= RATE_LIMIT_DELAY
    /\ Len(released) > 0 =>
          released[Len(released)].at - released[1].at
              >= (Len(released) - 1) * RATE_LIMIT_DELAY

\* Three calls were released, by both callers, the second exactly one delay
\* after the first while the other caller was waiting for the lock.
C11_Witness ==
    /\ Len(released) = 3
    /\ released[1].by # released[2].by
    /\ released[2].at - released[1].at = RATE_LIMIT_DELAY

\* C12: a call of safe_request sends at most MAX_RETRIES + 1 attempts and
\* never calls itself; until it has returned it can take a step; and against
\* a server that answers 429 to every attempt it returns None.
C12_ReissueIsBounded ==
    /\ Len(answers) <= MAX_RETRIES + 1
    /\ depth = 0
    /\ sr_pc = "request" => ENABLED NextRequest
    /\ (sr_pc = "returned" /\ \A k \in 1..Len(answers) : answers[k] = "429")
          => sr_result = "None"

\* The call has returned after the server answered 429 to each of its
\* MAX_RETRIES + 1 attempts.
C12_Witness ==
    /\ sr_pc = "returned"
    /\ Len(answers) = MAX_RETRIES + 1
    /\ \A k \in 1..Len(answers) : answers[k] = "429"

LastAnswer == answers[Len(answers)]

\* C13 as stated: safe_request never raises, an exception of the transport
\* yields None, and a response with a 4xx or 5xx status other than 429 is
\* the result of the call.
C13_ErrorStatusIsReturned ==
    sr_pc = "returned" =>
        /\ sr_result # "raised"
        /\ LastAnswer \in Failures => sr_result = "None"
        /\ LastAnswer \in {"401", "404", "500"} => sr_result = LastAnswer

\* C13, amended: safe_request never raises; an exception of the transport
\* yields None; a response whose status the session does not retry (401 and
\* 404 among them) is the result of the call; a status of the forcelist that
\* is still answered when the retries are used up yields None.
C13_NeverRaises ==
    sr_pc = "returned" =>
        /\ sr_result # "raised"
        /\ LastAnswer \in Failures => sr_result = "None"
        /\ LastAnswer \in Statuses \ status_forcelist =>
               sr_result = LastAnswer
        /\ LastAnswer \in status_forcelist =>
               sr_result = "None" /\ Len(answers) = MAX_RETRIES + 1

\* The server answered 500 to each of the MAX_RETRIES + 1 attempts and the
\* call has returned None.
C13_Witness ==
    /\ sr_pc = "returned"
    /\ sr_result = "None"
    /\ Len(answers) = MAX_RETRIES + 1
    /\ \A k \in 1..Len(answers) : answers[k] = "500"

\* The ID each line of FileLines denotes, written out by hand; 0 for a line
\* that is blank, a comment or no integer.
Denoted(line) ==
    CASE line \in {<<"1">>, <<"0", "1">>} -> 1
      [] line \in {<<"2">>, <<" ", "2", " ">>} -> 2
      [] line = <<"1", "2">> -> 12
      [] OTHER -> 0

\* C14: after remove_processed_skus_from_file(P) the file holds exactly the
\* original lines, in their order, minus every line that denotes an ID of P;
\* blank lines, comments and other text stay; and the file is written only
\* when a line was dropped.
C14_CompactionRemovesExactlyProcessed ==
    LET P == SeqToSet(data)
        Stays(line) == Denoted(line) \notin P
    IN /\ mpc = "done" => listFile = SelectSeq(listFile0, Stays)
       /\ mpc = "final_remove" =>
             (removed_count(listFile, data) > 0
                 <=> \E k \in 1..Len(listFile) : ~Stays(listFile[k]))

\* A file of a comment that holds a processed ID, a processed ID padded with
\* blanks and a processed ID with a leading zero was compacted to its
\* comment.
C14_Witness ==
    /\ mpc = "done"
    /\ listFile0 = << <<"#", "1">>, <<" ", "2", " ">>, <<"0", "1">> >>
    /\ listFile = << <<"#", "1">> >>

\* The file is absent or malformed: no JSON, or JSON that is not an object
\* with a processed_skus list.
Malformed(file) == file \notin JsonValues \/ ~HasList(file)

\* C15 as stated: built on an absent or malformed file, the CheckpointManager
\* starts with the empty checkpoint, and neither load() nor a later
\* is_processed or mark_processed raises.
C15_MalformedStartsEmpty ==
    (Malformed(ck_file) /\ ck_pc = "loaded") =>
        /\ ck_calls = 0 => ck_data = EmptyCheckpoint
        /\ ck_out # "raised"

\* C16: the list a save() has written is the in-memory list as it was at
\* one instant between the start and the end of that save, whatever the
\* workers marked meanwhile; so is its set of IDs.
C16_SaveWritesSnapshot ==
    sv_pc = "closed" =>
        \E snapshot \in sv_seen :
            /\ sv_file = snapshot
            /\ SeqToSet(sv_file) = SeqToSet(snapshot)

\* A save() that started on a list of one ID has written two, a worker
\* having marked the second during the iteration, and a third was marked
\* too late to be written.
C16_Witness ==
    /\ sv_pc = "closed"
    /\ Len(sv_file) = 2
    /\ Len(sv_data) = 3
    /\ Cardinality(sv_seen) = 2

\* C17: when a completion is counted, the scheduler goes on to the periodic
\* save exactly if the count is a multiple of CHECKPOINT_INTERVAL; it is in
\* the periodic save or compaction at such counts only; the periodic save is
\* left for the compaction (or by an interrupt, or by the write error of
\* C9), and the periodic compaction is entered from the periodic save only.
C17_PeriodicSaveEveryKth ==
    /\ [](mpc \in {"periodic_save", "periodic_remove"} =>
             processed_count > 0 /\ processed_count % CHECKPOINT_INTERVAL = 0)
    /\ [][/\ processed_count' = processed_count + 1 =>
               (mpc' = "periodic_save"
                   <=> processed_count' % CHECKPOINT_INTERVAL = 0)
          /\ (mpc = "periodic_save" /\ mpc' # mpc) =>
               mpc' \in {"periodic_remove", "shutdown", "save_error"}
          /\ (mpc' = "periodic_remove" /\ mpc # mpc') =>
               (mpc = "periodic_save" /\ ckptFile' = data)]_vars

\* The CHECKPOINT_INTERVAL-th completion was counted, the periodic save has
\* written an ID this execution marked, and the compaction is next.
C17_Witness ==
    /\ mpc = "periodic_remove"
    /\ processed_count = CHECKPOINT_INTERVAL
    /\ SeqToSet(ckptFile) \ loaded # {}

\* The indexes, in increasing order, of the images whose label is not the
\* target text.
Differing(images) ==
    SelectSeq([k \in 1..Len(images) |-> k], LAMBDA k : images[k] # Target)

\* C18 as stated: an item that the previous execution left out of the
\* checkpoint with a failed image update, and whose image list this
\* execution fetched, has had update_image_alt called for exactly the images
\* whose fetched label differs from the target text.
C18_FailedItemIsUpdatedNextRun ==
    \A t \in Tasks :
       (/\ run > 1
        /\ Submitted(t)
        /\ task[t].pc = "done"
        /\ Sku(t) \in prev.failed \ prev.ckpt
        /\ task[t].fetch \in {"labelled", "unlabelled"}) =>
       task[t].puts = Differing(task[t].images)

\* C19: the update pass is reached only with an image that lacks a non-empty
\* label; while it is at image k, update_image_alt has been called once, in
\* list order, for each earlier image whose fetched label differs from the
\* target text and for no other; once it is over, for each such image of the
\* list, whether or not one of the calls failed.
C19_OneUpdatePerDifferingImage ==
    \A t \in Tasks :
       LET images == task[t].images
           before == SubSeq(images, 1, task[t].index - 1)
       IN /\ task[t].puts # <<>> => task[t].fetch = "unlabelled"
          /\ task[t].fetch = "unlabelled" =>
               /\ \E k \in 1..Len(images) : images[k] \in {NoLabel, Blank}
               /\ task[t].pc \in {"update", "mark", "append", "done"}
               /\ task[t].pc = "update" => task[t].puts = Differing(before)
               /\ task[t].pc # "update" => task[t].puts = Differing(images)

\* The update of the first of two images failed and left its label as it
\* was; the update of the second was issued all the same and took effect.
C19_Witness ==
    \E t \in Tasks :
       /\ task[t].pc = "done"
       /\ task[t].images = <<NoLabel, Other>>
       /\ task[t].failed # {}
       /\ task[t].puts = <<1, 2>>
       /\ remote[Sku(t)] = <<NoLabel, Target>>

\* The label is present and is not empty once its blanks are trimmed.
NonEmptyLabel(label) == label \notin {NoLabel, Blank}

\* C20: a task whose image-list request was answered 200 with a non-empty
\* list all of whose labels are non-empty after trimming has called
\* update_image_alt for no image, whether the labels are the target text or
\* not; it goes on to mark the item, and once it is done it has returned
\* True and the item is in the checkpoint.
C20_AllLabelledIsCheckpointed ==
    \A t \in Tasks :
       LET images == task[t].images
       IN (/\ task[t].fetch \in {"labelled", "unlabelled"}
           /\ \A k \in 1..Len(images) : NonEmptyLabel(images[k])) =>
          /\ images # <<>>
          /\ task[t].puts = <<>>
          /\ "put" \notin task[t].req
          /\ task[t].pc \in {"mark", "append", "done"}
          /\ task[t].pc = "done" =>
               (task[t].result = "True" /\ Sku(t) \in SeqToSet(data))

\* Two labelled images, one of them with a label that is not the target
\* text: the task is done, the item is in the checkpoint and the label is
\* as it was.
C20_Witness ==
    \E t \in Tasks :
       /\ task[t].pc = "done"
       /\ task[t].fetch = "labelled"
       /\ task[t].images = <<Target, Other>>
       /\ remote[Sku(t)] = <<Target, Other>>
       /\ Sku(t) \in SeqToSet(data)

\* C21: the record fetched is never modified by update_image_alt, and the
\* body of the PUT has the alt text under Label and Text and, under every
\* other key, what the fetched record has there (no such key included).
C21_PayloadIsRecordWithNewLabel ==
    /\ objects[original_image_data] = fetched
    /\ pl_pc = "sent" =>
         \A f \in Fields :
            put_body[f] = IF f \in {"Label", "Text"} THEN new_alt_text
                      ELSE fetched[f]

\* The PUT was sent for a record that had another Label, no Text key and
\* two other fields.
C21_Witness ==
    /\ pl_pc = "sent"
    /\ fetched["Label"] \notin {Missing, new_alt_text}
    /\ fetched["Text"] = Missing
    /\ fetched["Id"] # Missing /\ fetched["Name"] # Missing
    /\ put_body # fetched

\* C22 as stated: every call of update_image_alt whose PUT was answered 401
\* has an entry of level CRITICAL in the execution log and in the error log,
\* and has returned False; the other calls returned as their own response
\* made them.
C22_AuthExpiredIsCritical ==
    \A call \in 1..Len(up_responses) :
       LET entry == [call |-> call, level |-> "CRITICAL"]
       IN /\ up_returns[call] = (up_responses[call] = 200)
          /\ up_responses[call] = 401 =>
               /\ entry \in SeqToSet(execution_log)
               /\ entry \in SeqToSet(error_log)

\* The lines of LoadLines that are comments, written out by hand: the first
\* character is "#", or the first character after the leading blanks is.
HashFirst == {<<"#", "1">>}
HashAfterBlanks == {<<" ", "#", "1">>}

\* The lines of LoadLines that are empty or blank, written out by hand.
BlankLines == {<<>>, <<" ">>}

\* The line numbers of a file whose lines are not among the skipped ones and
\* denote no ID, and the IDs denoted by the lines of a file, both in file
\* order.
TextLines(file, skipped) ==
    SelectSeq([n \in 1..Len(file) |-> n],
              LAMBDA n : file[n] \notin skipped /\ Denoted(file[n]) = 0)

IdsDenoted(file) ==
    LET ids == SelectSeq(file, LAMBDA line : Denoted(line) # 0)
    IN [n \in 1..Len(ids) |-> Denoted(ids[n])]

\* The lines of the log entries of a level, in the order written.
Logged(level) ==
    LET entries == SelectSeq(ld_log, LAMBDA e : e.level = level)
    IN [n \in 1..Len(entries) |-> entries[n].line]

\* C23 as stated: load_sku_list has returned the IDs of the integer lines in
\* file order, and has logged a WARNING for exactly the lines that are not
\* blank, do not have "#" as their first character and are no integer.
C23_NonIntegerLineIsWarned ==
    LET skipped == BlankLines \cup HashFirst
    IN (ld_pc = "returned" /\ ld_exists) =>
          /\ ld_sku_ids = IdsDenoted(ld_file)
          /\ Logged("WARNING") = TextLines(ld_file, skipped)

\* C23, amended: the comment test is made on the line without its leading
\* blanks.  load_sku_list has read every line and returned the IDs of the
\* integer lines in file order, as the scheduler's load_sku_list computes
\* them; it has logged a WARNING for exactly the lines that are not blank,
\* whose first character after the leading blanks is not "#" and that are
\* no integer, and nothing at level CRITICAL.
C23_LoadReturnsIdsAndWarns ==
    LET skipped == BlankLines \cup HashFirst \cup HashAfterBlanks
    IN (ld_pc = "returned" /\ ld_exists) =>
          /\ line_num = Len(ld_file)
          /\ ld_sku_ids = IdsDenoted(ld_file)
          /\ ld_sku_ids = load_sku_list(ld_file)
          /\ Logged("WARNING") = TextLines(ld_file, skipped)
          /\ Logged("CRITICAL") = <<>>

\* A file of text that is no integer, an ID padded with blanks and a comment
\* after a blank was loaded: one ID, one WARNING for line 1.
C23_Witness ==
    /\ ld_pc = "returned"
    /\ ld_file = << <<"1", "x">>, <<" ", "2", " ">>, <<" ", "#", "1">> >>
    /\ ld_sku_ids = <<2>>
    /\ Logged("WARNING") = <<1>>

\* C24: called on a name that differs from the first one in letter case and
\* in the amount of leading, trailing and internal whitespace only,
\* normalize_product_name returns what it returned for the first name, and
\* the same again when it is given its own result; generate_natural_alt_text
\* returns that result, or the placeholder when the result is empty.
C24_NormalizeIgnoresCaseAndBlanks ==
    nm_pc = "called" =>
       /\ nm_out = first_out
       /\ nm_again = nm_out
       /\ nm_alt = IF nm_out = <<>> THEN Placeholder ELSE nm_out
       /\ nm_alt # <<>>

\* "A  b" was normalized to "a b", and so was " a\tB" after it.
C24_Witness ==
    /\ nm_pc = "called"
    /\ first_name = <<"A", " ", " ", "b">>
    /\ product_name = <<" ", "a", Tab, "B">>
    /\ nm_out = <<"a", " ", "b">>
    /\ nm_alt = nm_out

\* Task t returns in this step, with a value (an exception is no return).
Returns(t) ==
    /\ Submitted(t)
    /\ task[t].pc # "done"
    /\ task'[t].pc = "done"
    /\ task'[t].result \in {"True", "False"}

\* C25 as stated: when process_single_sku returns, it returns True exactly if
\* its item ID is in the in-memory checkpoint at that moment.
C25_TrueIffCheckpointed ==
    [][\A t \in Tasks :
          Returns(t) =>
             (task'[t].result = "True" <=> Sku(t) \in SeqToSet(data'))]_vars

\* C25, amended: when process_single_sku returns True, its item ID is in the
\* in-memory checkpoint; when it returns False, the task has not reached
\* mark_processed, and the ID is in the checkpoint only if another task of
\* the same ID was submitted.
C25_TrueOnlyIfCheckpointed ==
    [][\A t \in Tasks :
          Returns(t) =>
             /\ task'[t].result = "True" => Sku(t) \in SeqToSet(data')
             /\ task'[t].result = "False" =>
                  /\ task[t].pc \in {"images", "update"}
                  /\ Sku(t) \in SeqToSet(data') =>
                       \E u \in 1..submitted : u # t /\ Sku(u) = Sku(t)]_vars

\* Two tasks of different items have returned: one True, its ID in the
\* checkpoint, the other False after a failed update, its ID not there.
C25_Witness ==
    \E t, u \in Started :
       /\ Sku(t) # Sku(u)
       /\ task[t].pc = "done" /\ task[u].pc = "done"
       /\ task[t].result = "True" /\ Sku(t) \in SeqToSet(data)
       /\ task[u].result = "False" /\ task[u].failed # {}
       /\ Sku(u) \notin SeqToSet(data)

\* C26 as stated: every ID that a compaction of this execution has removed
\* from sku_ids.txt is in the list that checkpoint.json holds.
C26_RemovedIdsAreOnDisk ==
    \A sku_id \in pd_removed : sku_id \in SeqToSet(pd_file)

\* The tasks of this execution that have added their item to the checkpoint.
Checkpointing ==
    {t \in 1..submitted : task[t].result = "True" /\ ~task[t].skipped}

\* C27: when an execution that was not interrupted has returned, its
\* processed_count is the number of IDs loaded from the list and the number
\* of tasks that finished, whatever their outcome.
C27_CountIsNumberOfLoadedIds ==
    (mpc = "done" /\ raised = "none") =>
        /\ run = 1 => processed_count = Len(load_sku_list(listFile0))
        /\ processed_count = Len(sku_ids)
        /\ processed_count = Cardinality({t \in Tasks : Finished(t)})

\* An uninterrupted execution of two tasks has returned with a count of 2:
\* one task returned False, the other raised, and no item was checkpointed.
C27_Witness ==
    /\ mpc = "done" /\ raised = "none"
    /\ processed_count = 2
    /\ \E t, u \in 1..submitted :
          task[t].result = "False" /\ task[u].result = "raised"
    /\ Checkpointing = {}
    /\ data = <<>>

\* C28: with every write succeeding and every request answered or timed
\* out, under fair scheduling, every call of wait() returns, every submitted
\* task finishes, and every execution of run_bulk_update returns.
C28_EverythingProceeds ==
    /\ \A c \in Callers : (waiter[c].pc # "idle") ~> (waiter[c].pc = "idle")
    /\ \A t \in Tasks : Submitted(t) ~> Finished(t)
    /\ BatchStudied ~> (mpc = "done")

\* A caller of wait() is blocked on the lock while its holder sleeps.
C28_Witness ==
    \E c, d \in Callers :
       /\ waiter[c].pc = "calling"
       /\ waiter[d].pc = "sleeping" /\ rl_lock = d /\ now < waiter[d].wake

====
